---- MODULE Spec2Model ----
(***************************************************************************)
(* A model of pinjected_openai: the sliding-window RateLimitManager of     *)
(* vision_llm.py, the OpenAI executors that run their task through         *)
(* a_repeat_for_rate_limit, and the OpenRouter executor                    *)
(* a_openrouter_chat_completion of openrouter/util.py with its tenacity    *)
(* retry wrapper and its response-resolution ladder.                       *)
(***************************************************************************)
EXTENDS Integers, Sequences, FiniteSets, TLC

(***************************************************************************)
(* Bounds of the model.                                                    *)
(***************************************************************************)
NumCallers == 2         \* concurrent callers of RateLimitManager.acquire
MaxTime == 2            \* the clock runs over 0..MaxTime
max_tokens == 2         \* RateLimitManager.max_tokens
max_calls == 2          \* RateLimitManager.max_calls
duration == 1           \* RateLimitManager.duration, in clock units
NumExecutors == 2       \* concurrent calls of the OpenAI executors
MaxTaskRuns == 2        \* runs of task() followed per executor call
MaxHint == 1            \* largest N of "Please retry after N seconds."
MaxDepth == 3           \* nested calls of a_openrouter_chat_completion followed
MaxTokenCount == 3      \* largest prompt_tokens and completion_tokens of a usage
MaxDim == 6             \* largest width and height of an image handed to the resizer
MaxDensity == 2         \* largest encoded size of one pixel of an image, in MB
NumCompletions == 2     \* concurrent OpenRouter completions of one process

(***************************************************************************)
(* Program constants.                                                      *)
(***************************************************************************)
PollDelay == 1          \* asyncio.sleep(1) in acquire
FallbackDelay == 10     \* asyncio.sleep(10) in a_repeat_for_rate_limit
StopAfterAttempt == 5   \* stop_after_attempt(5)
WaitMultiplier == 1     \* wait_exponential(multiplier=1, ...)
WaitMin == 4            \* wait_exponential(..., min=4, ...)
WaitMax == 10           \* wait_exponential(..., max=10)
ExpBase == 2            \* wait_exponential's exp_base, left at its default
PerThousand == 1000     \* the / 1000 of a_chat_completion_to_cost
LimitMb == 5            \* the 5 of a_resize_image_below_5mb
ShrinkNum == 9          \* the 0.9 of a_resize_image_below_5mb, as ShrinkNum / ShrinkDen
ShrinkDen == 10

Callers == 1..NumCallers
NoCaller == 0
TokenRequests == 0..(max_tokens + 1)

VARIABLES
    now,            \* pd.Timestamp.now()
    call_history,   \* RateLimitManager.call_history: sequence of UsageEntry
    lock,           \* RateLimitManager.lock: its holder, or NoCaller
    pc,             \* position of each caller inside acquire / ready
    approx_tokens,  \* acquire's argument, per caller
    check,          \* "first": the ready call of the if; "loop": of the while
    t,              \* _current_usage's local t, per caller
    remaining,      \* ready's local remaining, per caller
    wake_at         \* the time at which the caller's asyncio.sleep(1) is over

rlVars == <<now, call_history, lock, pc, approx_tokens, check, t, remaining, wake_at>>

VARIABLES
    ex_pc,          \* position of each executor call
    ex_kind,        \* which executor: "vision", "llm" or "json"
    ex_runs,        \* how many times the call has run task(), i.e. sent a request
    ex_sleep,       \* the argument of the asyncio.sleep the call is in
    enabled,        \* cost_logging_state["enabled"]
    subscribers,    \* number of on_next subscribed to chat_completion_costs_subject
    published,      \* number of CostRecords passed to chat_completion_costs_subject.on_next
    ex_last,        \* what the last run of task() gave: the completion or the error caught
    ex_hint,        \* the N matched in the message of the RateLimitError caught
    ex_waits,       \* how many asyncio.sleep the call has made in a_repeat_for_rate_limit
    ex_result,      \* what a_repeat_for_rate_limit handed to its caller
    totals          \* the cumulative_cost of each subscribed on_next, in subscription order

oaVars == <<ex_pc, ex_kind, ex_runs, ex_sleep, enabled, subscribers, published,
            ex_last, ex_hint, ex_waits, ex_result, totals>>

VARIABLES
    stack,              \* the calls of a_openrouter_chat_completion in progress, outermost first
    binding,            \* what a_structured_llm_for_json_fix is bound to
    cumulative_cost     \* openrouter_state['cumulative_cost']

orVars == <<stack, binding, cumulative_cost>>

VARIABLES
    cost_call,      \* the last cost computed: by which path, from what, and the amounts
    payload_args,   \* the arguments of the last payload built
    payload         \* the payload a_openrouter_chat_completion hands to a_openrouter_post

fnVars == <<cost_call, payload_args, payload>>

VARIABLES
    im_pc,          \* position of the call of a_resize_image_below_5mb
    img,            \* its argument
    current_img,    \* its local current_img
    resize_count    \* its local resize_count

imVars == <<im_pc, img, current_img, resize_count>>

VARIABLES
    inflight        \* the OpenRouter completions that run concurrently on one event loop

llVars == <<inflight>>

VARIABLES
    diagnostic      \* the last call of remaining_tokens / remaining_calls and its return value

dgVars == <<diagnostic>>

vars == <<rlVars, oaVars, orVars, fnVars, imVars, llVars, dgVars>>

\* what the operations of one component leave alone
notRL == <<oaVars, orVars, fnVars, imVars, llVars, dgVars>>
notOA == <<rlVars, orVars, fnVars, imVars, llVars, dgVars>>
notOR == <<rlVars, oaVars, fnVars, imVars, llVars, dgVars>>
notFn == <<rlVars, oaVars, orVars, imVars, llVars, dgVars>>
notIm == <<rlVars, oaVars, orVars, fnVars, llVars, dgVars>>
notLl == <<rlVars, oaVars, fnVars, imVars, stack, binding, dgVars>>
notDg == <<oaVars, orVars, fnVars, imVars, llVars>>

(***************************************************************************)
(* RateLimitManager                                                        *)
(***************************************************************************)
UsageEntry(timestamp, tokens) == [timestamp |-> timestamp, tokens |-> tokens]

RECURSIVE SumTokens(_)
SumTokens(h) == IF h = <<>> THEN 0 ELSE Head(h).tokens + SumTokens(Tail(h))

\* the filter of _current_usage: e.timestamp > t - self.duration
InWindow_keepsBoundary(e, time) == e.timestamp >= time - duration
InWindow(e, time) == e.timestamp > time - duration

\* _current_usage: the entries it keeps
Pruned_never(h, time) == h
Pruned(h, time) == SelectSeq(h, LAMBDA e: InWindow(e, time))

\* ready: remaining >= token and len(self.call_history) < self.max_calls
IsReady_strict(rem, token, h) == rem > token /\ Len(h) < max_calls
IsReady_callsOnly(rem, token, h) == Len(h) < max_calls
IsReady_callsInclusive(rem, token, h) == rem >= token /\ Len(h) <= max_calls
IsReady(rem, token, h) == rem >= token /\ Len(h) < max_calls

\* async with self.lock: the lock can be taken only while nobody holds it
LockFree_always == TRUE
LockFree == lock = NoCaller

\* the end of async with self.lock: ready releases the lock as it returns,
\* wherever acquire goes from there
Unlocked_keptAsleep(p, position) ==
    IF position = "sleep" THEN lock ELSE IF lock = p THEN NoCaller ELSE lock
Unlocked(p, position) == IF lock = p THEN NoCaller ELSE lock

RLInit ==
    /\ now = 0
    /\ call_history = <<>>
    /\ lock = NoCaller
    /\ pc = [p \in Callers |-> "idle"]
    /\ approx_tokens = [p \in Callers |-> 0]
    /\ check = [p \in Callers |-> "first"]
    /\ t = [p \in Callers |-> 0]
    /\ remaining = [p \in Callers |-> 0]
    /\ wake_at = [p \in Callers |-> 0]

\* acquire(approx_tokens) is called by a caller that is in no acquire (it never
\* called one, or its last one has returned): its first statement awaits ready
Acquire(p, tokens) ==
    /\ pc[p] \in {"idle", "returned"}
    /\ pc' = [pc EXCEPT ![p] = "ready"]
    /\ approx_tokens' = [approx_tokens EXCEPT ![p] = tokens]
    /\ check' = [check EXCEPT ![p] = "first"]
    /\ UNCHANGED <<now, call_history, lock, t, remaining, wake_at, notRL>>

\* ready: async with self.lock, then remaining = await self.remaining_tokens(),
\* which runs _current_usage: t is read and call_history is pruned
ReadyEnter(p) ==
    /\ pc[p] = "ready"
    /\ LockFree
    /\ lock' = p
    /\ t' = [t EXCEPT ![p] = now]
    /\ call_history' = Pruned(call_history, now)
    /\ remaining' = [remaining EXCEPT ![p] = max_tokens - SumTokens(Pruned(call_history, now))]
    /\ pc' = [pc EXCEPT ![p] = "decide"]
    /\ UNCHANGED <<now, approx_tokens, check, wake_at, notRL>>

\* ready: is_ready, the append, the release of the lock and the return into
\* acquire: admitted -> acquire returns; rejected by the if -> the while calls
\* ready at once; rejected by the while -> asyncio.sleep(1)
ReadyDecide(p) ==
    /\ pc[p] = "decide"
    /\ LET is_ready == IsReady(remaining[p], approx_tokens[p], call_history) IN
        /\ call_history' = IF is_ready
                           THEN Append(call_history, UsageEntry(now, approx_tokens[p]))
                           ELSE call_history
        /\ pc' = [pc EXCEPT ![p] = IF is_ready THEN "returned"
                                   ELSE IF check[p] = "first" THEN "ready"
                                   ELSE "sleep"]
        /\ check' = [check EXCEPT ![p] = IF is_ready THEN check[p] ELSE "loop"]
        /\ wake_at' = [wake_at EXCEPT ![p] = IF ~is_ready /\ check[p] = "loop"
                                             THEN now + PollDelay ELSE 0]
    /\ lock' = Unlocked(p, pc'[p])
    /\ remaining' = [remaining EXCEPT ![p] = 0]
    /\ t' = [t EXCEPT ![p] = 0]
    /\ UNCHANGED <<now, approx_tokens, notRL>>

\* asyncio.sleep(1) is over: the while calls ready again
Wake(p) ==
    /\ pc[p] = "sleep"
    /\ now >= wake_at[p]
    /\ pc' = [pc EXCEPT ![p] = "ready"]
    /\ wake_at' = [wake_at EXCEPT ![p] = 0]
    /\ UNCHANGED <<now, call_history, lock, approx_tokens, check, t, remaining, notRL>>

\* the clock advances
Tick ==
    /\ now < MaxTime
    /\ now' = now + 1
    /\ UNCHANGED <<call_history, lock, pc, approx_tokens, check, t, remaining, wake_at, notRL>>

\* the diagnostics of the RateLimitManager, called from outside acquire
DiagnosticInit == diagnostic = [op |-> "none", value |-> 0]

\* remaining_tokens: max_tokens - await self._current_usage(), which reads the
\* clock, prunes call_history and sums what is left; the lock is not taken
RemainingTokens ==
    /\ call_history' = Pruned(call_history, now)
    /\ diagnostic' = [op |-> "remaining_tokens",
                      value |-> max_tokens - SumTokens(Pruned(call_history, now))]
    /\ UNCHANGED <<now, lock, pc, approx_tokens, check, t, remaining, wake_at, notDg>>

\* remaining_calls: max_calls - len(self.call_history), of the list as it is
RemainingCalls ==
    /\ diagnostic' = [op |-> "remaining_calls", value |-> max_calls - Len(call_history)]
    /\ UNCHANGED <<rlVars, notDg>>

\* acquire of the caller whose admission is followed: a request the limits can
\* grant
LiveAcquire(tokens) ==
    /\ tokens <= max_tokens
    /\ Acquire(1, tokens)

\* acquire of another caller, with a request that is never admitted: it polls
\* and takes the lock again and again
LiveCompete(p) ==
    /\ p # 1
    /\ Acquire(p, max_tokens + 1)

\* asyncio.sleep(1) is over. The clock of the model stops at MaxTime while time
\* goes on: a sleep that is under way at MaxTime ends there
LiveWake(p) ==
    /\ pc[p] = "sleep"
    /\ now >= wake_at[p] \/ now = MaxTime
    /\ pc' = [pc EXCEPT ![p] = "ready"]
    /\ wake_at' = [wake_at EXCEPT ![p] = 0]
    /\ UNCHANGED <<now, call_history, lock, approx_tokens, check, t, remaining, notRL>>

LiveNext ==
    \/ \E tokens \in 0..max_tokens : LiveAcquire(tokens)
    \/ \E p \in Callers : LiveCompete(p)
    \/ \E p \in Callers : ReadyEnter(p)
    \/ \E p \in Callers : ReadyDecide(p)
    \/ \E p \in Callers : LiveWake(p)
    \/ Tick

\* time keeps advancing; the event loop resumes a coroutine whose sleep is over
\* and runs the body of ready, which waits for nothing, to its end;
\* asyncio.Lock wakes its waiters in turn, so a caller that keeps waiting for
\* the lock gets it
LiveFairness ==
    /\ WF_vars(Tick)
    /\ WF_vars(LiveWake(1))
    /\ SF_vars(ReadyEnter(1))
    /\ \A p \in Callers : WF_vars(ReadyDecide(p))

\* one caller of acquire, the clock, and the diagnostics called at any moment
DiagnosticNext ==
    \/ \E tokens \in TokenRequests : Acquire(1, tokens)
    \/ ReadyEnter(1)
    \/ ReadyDecide(1)
    \/ Wake(1)
    \/ Tick
    \/ RemainingTokens
    \/ RemainingCalls

RLNext ==
    \/ \E p \in Callers, tokens \in TokenRequests : Acquire(p, tokens)
    \/ \E p \in Callers : ReadyEnter(p)
    \/ \E p \in Callers : ReadyDecide(p)
    \/ \E p \in Callers : Wake(p)
    \/ Tick

(***************************************************************************)
(* Cost of a completion. An amount is kept exact, as num / den.            *)
(***************************************************************************)
Frac(num, den) == [num |-> num, den |-> den]
FracEq(a, b) == a.num * b.den = b.num * a.den
FracAdd(a, b) ==
    IF a.den = b.den THEN Frac(a.num + b.num, a.den)
    ELSE Frac(a.num * b.den + b.num * a.den, a.den * b.den)

\* table[key] of a dict: the value, or KeyError when the key is absent
Lookup_fallback(table, key) ==
    IF key \in DOMAIN table THEN [found |-> TRUE, value |-> table[key]]
    ELSE [found |-> TRUE, value |-> [prompt |-> 1, completion |-> 2]]
Lookup(table, key) ==
    IF key \in DOMAIN table THEN [found |-> TRUE, value |-> table[key]]
    ELSE [found |-> FALSE, value |-> <<>>]

\* the pricing of the OpenRouter model, its prompt "0.001" and completion "0.002"
\* counted in thousandths, and the usage of a response
Pricing == [prompt |-> 1, completion |-> 2]
Usage == [prompt_tokens |-> 10, completion_tokens |-> 1]

\* OpenRouterModelPricing.calc_cost_dict
CalcCostDict_promptOnly(pricing, usage) ==
    [completion |-> 0, prompt |-> usage.prompt_tokens * pricing.prompt]
CalcCostDict(pricing, usage) ==
    [completion |-> usage.completion_tokens * pricing.completion,
     prompt |-> usage.prompt_tokens * pricing.prompt]

\* OpenRouterModelPricing.calc_cost: the same products, usage read by attribute
CalcCost(pricing, usage) ==
    [completion |-> usage.completion_tokens * pricing.completion,
     prompt |-> usage.prompt_tokens * pricing.prompt]

\* openai_model_pricing_table: the ModelPricing of each known model id
ModelPricing == [input_cost |-> 5, output_cost |-> 15]
openai_model_pricing_table == [m \in {"gpt-4o"} |-> ModelPricing]

\* the completion.model a response may carry
CompletionModels == {"gpt-4o", "gpt-x"}

\* a_chat_completion_to_cost, after the lookup of the pricing
ChatCompletionToCost_perToken(pricing, usage) ==
    [total_cost_usd |-> Frac(pricing.input_cost * usage.prompt_tokens
                             + pricing.output_cost * usage.completion_tokens, 1),
     prompt_cost_usd |-> Frac(pricing.input_cost * usage.prompt_tokens, 1),
     completion_cost_usd |-> Frac(pricing.output_cost * usage.completion_tokens, 1)]
ChatCompletionToCost(pricing, usage) ==
    [total_cost_usd |-> FracAdd(Frac(pricing.input_cost * usage.prompt_tokens, PerThousand),
                                Frac(pricing.output_cost * usage.completion_tokens, PerThousand)),
     prompt_cost_usd |-> Frac(pricing.input_cost * usage.prompt_tokens, PerThousand),
     completion_cost_usd |-> Frac(pricing.output_cost * usage.completion_tokens, PerThousand)]

(***************************************************************************)
(* The OpenAI executors: a_vision_llm__openai, a_llm__openai and           *)
(* a_json_llm__openai, each running its task through                       *)
(* a_repeat_for_rate_limit.                                                *)
(***************************************************************************)
Executors == 1..NumExecutors
Kinds == {"vision", "llm", "json"}
TaskOutcomes == {"completion", "RateLimitError", "APITimeoutError", "APIConnectionError", "other"}
NoHint == -1
Hints == {NoHint} \cup (0..MaxHint)

\* a_repeat_for_rate_limit: the except clauses (the errors that are retried)
Classified_rateLimitOnly(outcome) == outcome = "RateLimitError"
Classified_everyError(outcome) == outcome # "completion"
Classified(outcome) == outcome \in {"RateLimitError", "APITimeoutError", "APIConnectionError"}

\* a_repeat_for_rate_limit: the seconds slept after a classified error; hint is
\* the N matched by "Please retry after (\d+) seconds.", NoHint without a match
SleepSeconds_alwaysFallback(outcome, hint) == FallbackDelay
SleepSeconds(outcome, hint) ==
    IF outcome = "RateLimitError" /\ hint # NoHint THEN hint ELSE FallbackDelay

\* what one run of task() gives a_repeat_for_rate_limit: the outcome of the
\* request, or in a_vision_llm__openai the KeyError of a_chat_completion_to_cost
\* when the completion's model is not in openai_model_pricing_table
TaskResult(kind, outcome, model) ==
    IF outcome = "completion" /\ kind = "vision" /\ ~Lookup(openai_model_pricing_table, model).found
    THEN "KeyError"
    ELSE outcome

\* chat_completion_costs_subject.on_next(cost) is the last statement of the task
\* of a_vision_llm__openai before its return: the number of CostRecords published
\* after a run of task()
Published_everyRun(n, kind, res) == IF kind = "vision" THEN n + 1 ELSE n
Published(n, kind, res) == IF res = "completion" /\ kind = "vision" THEN n + 1 ELSE n

OAInit ==
    /\ ex_pc = [e \in Executors |-> "idle"]
    /\ ex_kind = [e \in Executors |-> "json"]
    /\ ex_runs = [e \in Executors |-> 0]
    /\ ex_sleep = [e \in Executors |-> 0]
    /\ enabled = FALSE
    /\ subscribers = 0
    /\ published = 0
    /\ ex_last = [e \in Executors |-> "none"]
    /\ ex_hint = [e \in Executors |-> NoHint]
    /\ ex_waits = [e \in Executors |-> 0]
    /\ ex_result = [e \in Executors |-> "none"]
    /\ totals = <<>>

\* an executor is called; a_vision_llm__openai and a_llm__openai first await
\* a_enable_cost_logging(), a_json_llm__openai goes to its task at once
Call(e, kind) ==
    /\ ex_pc[e] = "idle"
    /\ ex_kind' = [ex_kind EXCEPT ![e] = kind]
    /\ ex_pc' = [ex_pc EXCEPT ![e] = IF kind = "json" THEN "task" ELSE "enable"]
    /\ UNCHANGED <<ex_runs, ex_sleep, enabled, subscribers, published,
                   ex_last, ex_hint, ex_waits, ex_result, totals, notOA>>

\* a_enable_cost_logging: if cost_logging_state["enabled"]: return
AlreadyEnabled_never == FALSE
AlreadyEnabled == enabled

\* a_enable_cost_logging: a new on_next with its own cumulative_cost = 0 is
\* subscribed unless the flag is set; there is no await inside it
EnableCostLogging(e) ==
    /\ ex_pc[e] = "enable"
    /\ IF AlreadyEnabled
       THEN UNCHANGED <<enabled, subscribers, totals>>
       ELSE /\ subscribers' = subscribers + 1
            /\ totals' = Append(totals, Frac(0, 1))
            /\ enabled' = TRUE
    /\ ex_pc' = [ex_pc EXCEPT ![e] = "task"]
    /\ UNCHANGED <<ex_kind, ex_runs, ex_sleep, published,
                   ex_last, ex_hint, ex_waits, ex_result, notOA>>

\* one run of task() inside the while True of a_repeat_for_rate_limit: the
\* request is sent with no admission step before it; a completion is costed and
\* published by a_vision_llm__openai only, each subscribed on_next adding its
\* total; a classified error sleeps, any other error propagates
Task(e, outcome, hint, model) ==
    LET res == TaskResult(ex_kind[e], outcome, model)
        costed == res = "completion" /\ ex_kind[e] = "vision"
        cost == ChatCompletionToCost(Lookup(openai_model_pricing_table, model).value, Usage)
    IN  /\ ex_pc[e] = "task"
        /\ ex_runs[e] < MaxTaskRuns
        \* only the message of a RateLimitError is searched for a hint, and only a
        \* completion carries a model
        /\ outcome # "RateLimitError" => hint = NoHint
        /\ outcome # "completion" => model = "gpt-4o"
        /\ ex_runs' = [ex_runs EXCEPT ![e] = @ + 1]
        /\ published' = Published(published, ex_kind[e], res)
        /\ totals' = IF costed
                     THEN [i \in DOMAIN totals |-> FracAdd(totals[i], cost.total_cost_usd)]
                     ELSE totals
        /\ ex_pc' = [ex_pc EXCEPT ![e] = IF res = "completion" THEN "returned"
                                          ELSE IF Classified(res) THEN "sleep"
                                          ELSE "raised"]
        /\ ex_sleep' = [ex_sleep EXCEPT ![e] = IF Classified(res)
                                                THEN SleepSeconds(res, hint) ELSE 0]
        /\ ex_last' = [ex_last EXCEPT ![e] = res]
        /\ ex_hint' = [ex_hint EXCEPT ![e] = IF res = "RateLimitError" THEN hint ELSE NoHint]
        /\ ex_waits' = [ex_waits EXCEPT ![e] = IF Classified(res) THEN @ + 1 ELSE @]
        /\ ex_result' = [ex_result EXCEPT ![e] = IF Classified(res) THEN @ ELSE res]
        /\ UNCHANGED <<ex_kind, enabled, subscribers, notOA>>

\* the asyncio.sleep of a_repeat_for_rate_limit is over: the except clause ends,
\* its error is dropped, and the loop runs task() again
SleepOver(e) ==
    /\ ex_pc[e] = "sleep"
    /\ ex_pc' = [ex_pc EXCEPT ![e] = "task"]
    /\ ex_sleep' = [ex_sleep EXCEPT ![e] = 0]
    /\ ex_last' = [ex_last EXCEPT ![e] = "none"]
    /\ ex_hint' = [ex_hint EXCEPT ![e] = NoHint]
    /\ UNCHANGED <<ex_kind, ex_runs, enabled, subscribers, published,
                   ex_waits, ex_result, totals, notOA>>

OANext ==
    \/ \E e \in Executors, kind \in Kinds : Call(e, kind)
    \/ \E e \in Executors : EnableCostLogging(e)
    \/ \E e \in Executors, outcome \in TaskOutcomes, hint \in Hints, model \in CompletionModels :
            Task(e, outcome, hint, model)
    \/ \E e \in Executors : SleepOver(e)


(***************************************************************************)
(* Response texts. A text is a sequence of tokens: the triple backtick,    *)
(* the brackets of the JSON document of the schema Text (a list of         *)
(* strings), its items, and what makes a text malformed.                   *)
(***************************************************************************)
\* the triple backtick
Fence == "fence"
\* the strings a text_lines item can be: a plain one, and one that holds a
\* triple backtick
Items == {"a", Fence}
\* the values of the schema the responses are built from
Values == {<<>>, <<"a">>, <<Fence>>}

\* model_dump_json of a value
Dump(v) == <<"[">> \o v \o <<"]">>

Range(s) == {s[i] : i \in DOMAIN s}

\* str.split on the triple backtick
RECURSIVE Split(_)
Split(s) ==
    IF s = <<>> THEN << <<>> >>
    ELSE LET rest == Split(Tail(s)) IN
         IF Head(s) = Fence THEN << <<>> >> \o rest
         ELSE << <<Head(s)>> \o Head(rest) >> \o Tail(rest)

\* str.strip()
RECURSIVE LStrip(_)
LStrip(s) == IF s # <<>> /\ Head(s) = " " THEN LStrip(Tail(s)) ELSE s

RECURSIVE RStrip(_)
RStrip(s) == IF s # <<>> /\ s[Len(s)] = " " THEN RStrip(SubSeq(s, 1, Len(s) - 1)) ELSE s

Strip(s) == RStrip(LStrip(s))

\* if the triple backtick is in data: data = data.split(it)[1].strip()
FenceStripped(data) == IF Fence \in Range(data) THEN Strip(Split(data)[2]) ELSE data

Rejected == [ok |-> FALSE, value |-> <<>>]
Accepted(v) == [ok |-> TRUE, value |-> v]

\* response_format.model_validate_json(data): the text must be one JSON list of
\* strings, whitespace around it allowed
ValidateJson(data) ==
    LET s == Strip(data) IN
    IF /\ Len(s) >= 2 /\ s[1] = "[" /\ s[Len(s)] = "]"
       /\ \A i \in 2..(Len(s) - 1) : s[i] \in Items
    THEN Accepted(SubSeq(s, 2, Len(s) - 1))
    ELSE Rejected

\* index of the first occurrence of token c in s, Len(s) + 1 when there is none
RECURSIVE IndexOf(_, _)
IndexOf(s, c) == IF s = <<>> \/ Head(s) = c THEN 1 ELSE 1 + IndexOf(Tail(s), c)

\* json_repair.loads(data): text around the document, trailing commas and single
\* quotes are repaired and a missing closing bracket is supplied; a text that
\* opens no document gives the empty string
Repair(data) ==
    LET open == IndexOf(data, "[")
        body == SubSeq(data, open + 1, Len(data))
        upto == SubSeq(body, 1, IndexOf(body, "]") - 1)
        kept == SelectSeq(upto, LAMBDA c : c \notin {",", " "})
    IN  IF open > Len(data) THEN Rejected
        ELSE Accepted([i \in DOMAIN kept |-> IF kept[i] = "'a'" THEN "a" ELSE kept[i]])

\* response_format.model_validate(data_dict)
ModelValidate(loaded) ==
    IF loaded.ok /\ \A i \in DOMAIN loaded.value : loaded.value[i] \in Items
    THEN Accepted(loaded.value)
    ELSE Rejected

\* the try / except ladder of a_openrouter_chat_completion up to its await: the
\* stages run on the content of the response, the data they ran on, and the
\* value returned unless the corrective call is needed
Resolve_skipsRepair(content) ==
    LET data == FenceStripped(content)
        strict == ValidateJson(data)
    IN  IF strict.ok
        THEN [stages |-> <<"validate">>, data |-> data, ok |-> TRUE, value |-> strict.value]
        ELSE [stages |-> <<"validate", "fix">>, data |-> data, ok |-> FALSE, value |-> <<>>]
Resolve(content) ==
    LET data == FenceStripped(content)
        strict == ValidateJson(data)
        repaired == ModelValidate(Repair(data))
    IN  IF strict.ok
        THEN [stages |-> <<"validate">>, data |-> data, ok |-> TRUE, value |-> strict.value]
        ELSE IF repaired.ok
        THEN [stages |-> <<"validate", "repair">>, data |-> data, ok |-> TRUE,
              value |-> repaired.value]
        ELSE [stages |-> <<"validate", "repair", "fix">>, data |-> data, ok |-> FALSE,
              value |-> <<>>]

\* the response contents the transport is taken to return
Docs == {Dump(v) : v \in Values}
TrailingComma == <<"[", "a", ",", "]">>
SingleQuotes == <<"[", "'a'", "]">>
Malformed == {TrailingComma, SingleQuotes, <<"[", "1", "]">>, <<"x">>}
Fenced(s) == {pre \o <<Fence>> \o pad \o s \o pad \o <<Fence>> \o pre :
                pre \in {<<>>, <<"x">>}, pad \in {<<>>, <<" ">>}}
Contents == Docs \cup Malformed \cup UNION {Fenced(s) : s \in Docs}
                 \cup {<<Fence>> \o TrailingComma \o <<Fence>>}

(***************************************************************************)
(* The retry wrapper of a_openrouter_chat_completion.                      *)
(***************************************************************************)
Max(a, b) == IF a >= b THEN a ELSE b
Min(a, b) == IF a <= b THEN a ELSE b

RECURSIVE Pow(_, _)
Pow(b, n) == IF n = 0 THEN 1 ELSE b * Pow(b, n - 1)

\* wait_exponential(multiplier=1, min=4, max=10) after the given attempt
WaitExponential_fromMin(attempt_number) ==
    Max(Max(0, WaitMin), Min(WaitMin * Pow(ExpBase, attempt_number - 1), WaitMax))
WaitExponential(attempt_number) ==
    Max(Max(0, WaitMin), Min(WaitMultiplier * Pow(ExpBase, attempt_number - 1), WaitMax))

\* retry=retry_if_exception_type(httpx.ReadTimeout)
ShouldRetry_anyException(exc) == TRUE
ShouldRetry_runtimeError(exc) == exc \in {"ReadTimeout", "RuntimeError"}
ShouldRetry(exc) == exc = "ReadTimeout"

\* stop=stop_after_attempt(5)
ShouldStop_oneMore(attempt_number) == attempt_number >= StopAfterAttempt + 1
ShouldStop(attempt_number) == attempt_number >= StopAfterAttempt

\* openrouter_model_table: the pricing of each model id it lists
openrouter_model_table == [m \in {"model-x"} |-> Pricing]

\* the model argument of a call
ModelIds == {"model-x", "model-y"}

\* a call of a_openrouter_chat_completion at its first attempt
NewCall(schema) ==
    [pc |-> "post", schema |-> schema, attempt |-> 1, timeouts |-> 0, waits |-> <<>>,
     content |-> <<>>, data |-> <<>>, stages |-> <<>>, fixes |-> 0, result |-> <<>>,
     model |-> "model-x", fix |-> TRUE, error |-> "none",
     fetched |-> 0, normalized |-> 0, posted |-> 0, costed |-> 0, resolved |-> 0]

\* one run of the function body from its first statement to the await of
\* a_openrouter_post: a_openrouter_chat_completion awaits
\* a_cached_schema_example_provider when a schema is given and normalizes the
\* images, a_openrouter_chat_completion__without_fix does neither
Attempted(f) ==
    [f EXCEPT !.fetched = IF f.fix /\ f.schema THEN @ + 1 ELSE @,
              !.normalized = IF f.fix THEN @ + 1 ELSE @,
              !.posted = @ + 1]

\* the wrapper when the function raises exc: wait and attempt again, or give up,
\* with RetryError once the attempts of a retried error are used up
AfterRaise(f, exc) ==
    LET timed == IF exc = "ReadTimeout" THEN f.timeouts + 1 ELSE f.timeouts IN
    IF ShouldRetry(exc) /\ ~ShouldStop(f.attempt)
    THEN [f EXCEPT !.pc = "post", !.attempt = @ + 1, !.timeouts = timed,
                   !.waits = Append(@, WaitExponential(f.attempt)),
                   !.content = <<>>, !.data = <<>>, !.stages = <<>>]
    ELSE [f EXCEPT !.pc = "failed", !.timeouts = timed,
                   !.error = IF ShouldRetry(exc) THEN "RetryError" ELSE exc]

\* the function raises exc: a_openrouter_chat_completion is wrapped by @retry,
\* a_openrouter_chat_completion__without_fix is not
Raised(f, exc) ==
    IF f.fix THEN AfterRaise(f, exc)
    ELSE [f EXCEPT !.pc = "failed", !.error = exc,
                   !.timeouts = IF exc = "ReadTimeout" THEN @ + 1 ELSE @]

Top == stack[Len(stack)]
WithTop(f) == [stack EXCEPT ![Len(stack)] = f]

ORInit ==
    /\ stack = <<>>
    /\ binding = "unresolved"
    /\ cumulative_cost = 0

\* a_openrouter_chat_completion (fix) or a_openrouter_chat_completion__without_fix
\* is called, with or without a response_format, for a model id; its injected
\* dependencies are resolved, a_structured_llm_for_json_fix to what the design
\* binds it to
CallOpenRouter(schema, model, fix, bound) ==
    /\ stack = <<>>
    /\ binding = "unresolved"
    /\ stack' = <<[NewCall(schema) EXCEPT !.model = model, !.fix = fix]>>
    /\ binding' = bound
    /\ UNCHANGED <<cumulative_cost, notOR>>

\* a_openrouter_post raises httpx.ReadTimeout
PostReadTimeout ==
    /\ stack # <<>> /\ Top.pc = "post"
    /\ stack' = WithTop(Raised(Attempted(Top), "ReadTimeout"))
    /\ UNCHANGED <<binding, cumulative_cost, notOR>>

\* the response holds an error object: RuntimeError
PostErrorObject ==
    /\ stack # <<>> /\ Top.pc = "post"
    /\ stack' = WithTop(Raised(Attempted(Top), "RuntimeError"))
    /\ UNCHANGED <<binding, cumulative_cost, notOR>>

\* sum(cost_dict.values()), added to the cumulative cost before the content is
\* looked at: whether a schema is given and whether the content resolves (ok)
\* do not enter into it
Charged_whenResolved(cost_dict, schema, ok) ==
    IF schema /\ ~ok THEN 0 ELSE cost_dict.completion + cost_dict.prompt
Charged(cost_dict, schema, ok) == cost_dict.completion + cost_dict.prompt

\* the response holds a completion: the pricing of the model is looked up
\* (KeyError for a model id the table does not list), the cost is added, then the
\* content is returned as it is, or resolved against the schema: up to the
\* corrective call in a_openrouter_chat_completion, up to the repair, whose
\* error propagates, in a_openrouter_chat_completion__without_fix
PostCompletion(content) ==
    /\ stack # <<>> /\ Top.pc = "post"
    /\ IF ~Lookup(openrouter_model_table, Top.model).found
       THEN /\ stack' = WithTop(Raised(Attempted(Top), "KeyError"))
            /\ UNCHANGED cumulative_cost
       ELSE LET cost_dict == CalcCostDict(Lookup(openrouter_model_table, Top.model).value, Usage)
                r == Resolve(content)
                costed == [Attempted(Top) EXCEPT !.costed = @ + 1]
                seen == [costed EXCEPT !.content = content, !.data = r.data,
                                       !.resolved = @ + 1]
            IN  /\ cumulative_cost' = cumulative_cost + Charged(cost_dict, Top.schema, r.ok)
                /\ stack' = WithTop(
                     IF ~Top.schema
                     THEN [costed EXCEPT !.pc = "done", !.content = content, !.data = content,
                                         !.result = content]
                     ELSE IF r.ok
                     THEN [seen EXCEPT !.pc = "done", !.stages = r.stages, !.result = r.value]
                     ELSE IF Top.fix
                     THEN [seen EXCEPT !.pc = "fix", !.stages = r.stages, !.result = r.value]
                     ELSE Raised([seen EXCEPT !.stages = <<"validate", "repair">>],
                                 "ValidationError"))
    /\ UNCHANGED <<binding, notOR>>

\* await a_structured_llm_for_json_fix(fix_prompt, response_format=...), bound to
\* some other collaborator: it returns a value of the schema or raises
FixByOther(outcome, v) ==
    /\ stack # <<>> /\ Top.pc = "fix"
    /\ binding = "other"
    /\ LET f == [Top EXCEPT !.fixes = @ + 1] IN
       stack' = WithTop(
            IF outcome = "value" THEN [f EXCEPT !.pc = "done", !.result = v]
            ELSE AfterRaise(f, outcome))
    /\ UNCHANGED <<binding, cumulative_cost, notOR>>

\* the same await, with a_structured_llm_for_json_fix bound to the executor:
\* a nested call of a_openrouter_chat_completion with the schema
FixByExecutor ==
    /\ stack # <<>> /\ Top.pc = "fix"
    /\ binding = "executor"
    /\ Len(stack) < MaxDepth
    /\ stack' = Append(WithTop([Top EXCEPT !.pc = "awaiting", !.fixes = @ + 1]), NewCall(TRUE))
    /\ UNCHANGED <<binding, cumulative_cost, notOR>>

\* the nested call is over: its value is returned by the call that awaits it, or
\* its error (never a bare ReadTimeout) propagates through it
NestedOver ==
    /\ Len(stack) > 1
    /\ Top.pc \in {"done", "failed"}
    /\ LET parent == stack[Len(stack) - 1]
           below == SubSeq(stack, 1, Len(stack) - 2)
       IN  stack' = Append(below,
                IF Top.pc = "done" THEN [parent EXCEPT !.pc = "done", !.result = Top.result]
                ELSE AfterRaise(parent, Top.error))
    /\ UNCHANGED <<binding, cumulative_cost, notOR>>

ORNext ==
    \/ \E schema \in BOOLEAN, model \in ModelIds, fix \in BOOLEAN, bound \in {"executor", "other"} :
            CallOpenRouter(schema, model, fix, bound)
    \/ PostReadTimeout
    \/ PostErrorObject
    \/ \E content \in Contents : PostCompletion(content)
    \/ \E outcome \in {"value", "Exception", "ReadTimeout"}, v \in Values : FixByOther(outcome, v)
    \/ FixByExecutor
    \/ NestedOver

(***************************************************************************)
(* The cost computations on their own, over a range of usages and prices.  *)
(***************************************************************************)
TokenCounts == 0..MaxTokenCount
Usages == [prompt_tokens : TokenCounts, completion_tokens : TokenCounts]

\* OpenRouterModelPricing of some models, per token
Pricings == {Pricing, [prompt |-> 0, completion |-> 3], [prompt |-> 2, completion |-> 2]}

\* ModelPricing of some models
ModelPricings == {ModelPricing, [input_cost |-> 0, output_cost |-> 10],
                  [input_cost |-> 30, output_cost |-> 60]}

CostInit ==
    cost_call = [path |-> "none", pricing |-> Pricing,
                 usage |-> [prompt_tokens |-> 0, completion_tokens |-> 0],
                 prompt |-> Frac(0, 1), completion |-> Frac(0, 1), total |-> Frac(0, 1)]

\* sum(cost.values()) over the dict of calc_cost / calc_cost_dict
SumValues(cost) == 0 + cost.completion + cost.prompt

\* a_llm__openrouter: cost = pricing.calc_cost(res.usage); total_cost = sum(cost.values())
CostByCalcCost(pricing, usage) ==
    /\ LET cost == CalcCost(pricing, usage) IN
       cost_call' = [path |-> "calc_cost", pricing |-> pricing, usage |-> usage,
                     prompt |-> Frac(cost.prompt, 1), completion |-> Frac(cost.completion, 1),
                     total |-> Frac(SumValues(cost), 1)]
    /\ UNCHANGED <<payload_args, payload, notFn>>

\* a_openrouter_chat_completion: cost_dict = pricing.calc_cost_dict(res['usage']),
\* of which sum(cost_dict.values()) is added to the cumulative cost
CostByCalcCostDict(pricing, usage) ==
    /\ LET cost == CalcCostDict(pricing, usage) IN
       cost_call' = [path |-> "calc_cost_dict", pricing |-> pricing, usage |-> usage,
                     prompt |-> Frac(cost.prompt, 1), completion |-> Frac(cost.completion, 1),
                     total |-> Frac(SumValues(cost), 1)]
    /\ UNCHANGED <<payload_args, payload, notFn>>

\* a_chat_completion_to_cost
CostByChatCompletionToCost(pricing, usage) ==
    /\ LET cost == ChatCompletionToCost(pricing, usage) IN
       cost_call' = [path |-> "a_chat_completion_to_cost", pricing |-> pricing, usage |-> usage,
                     prompt |-> cost.prompt_cost_usd, completion |-> cost.completion_cost_usd,
                     total |-> cost.total_cost_usd]
    /\ UNCHANGED <<payload_args, payload, notFn>>

CostNext ==
    \/ \E pricing \in Pricings, usage \in Usages : CostByCalcCost(pricing, usage)
    \/ \E pricing \in Pricings, usage \in Usages : CostByCalcCostDict(pricing, usage)
    \/ \E pricing \in ModelPricings, usage \in Usages : CostByChatCompletionToCost(pricing, usage)

(***************************************************************************)
(* The payload of a_openrouter_chat_completion. A dict is a function from  *)
(* its keys; an argument that may be None is the empty sequence or the     *)
(* sequence of its one value.                                              *)
(***************************************************************************)
None == <<>>
Some(v) == <<v>>

\* a | b of two dicts, also dict.update and {**a, **b}: the keys of b win
Merge(a, b) ==
    [k \in DOMAIN a \cup DOMAIN b |-> IF k \in DOMAIN b THEN b[k] ELSE a[k]]

EmptyDict == [k \in {} |-> TRUE]

\* build_openai_response_format(response_format)
BuildOpenaiResponseFormat(name) ==
    [type |-> "json_schema",
     json_schema |-> [name |-> name,
                      description |-> "Pydantic model",
                      strict |-> TRUE,
                      schema |-> [title |-> name, type |-> "object",
                                  additionalProperties |-> FALSE]]]

\* the dict handed to a_openrouter_post, from the response_format (None or a
\* BaseModel, by its name), the provider argument (None or a dict) and **kwargs
Payload(response_format, provider, kwargs) ==
    LET with_schema == IF response_format # None
                       THEN [provider |-> [require_parameters |-> TRUE],
                             response_format |-> BuildOpenaiResponseFormat(response_format[1])]
                       ELSE EmptyDict
        p == IF "provider" \in DOMAIN with_schema THEN with_schema["provider"] ELSE EmptyDict
        provider_filter == IF provider # None
                           THEN Merge(with_schema, [provider |-> Merge(p, provider[1])])
                           ELSE with_schema
        fixed == [model |-> "model-x", messages |-> "prompt",
                  max_tokens |-> 8192, temperature |-> 1]
    IN  Merge(Merge(fixed, provider_filter), kwargs)

\* the provider dicts a caller passes: any of order, require_parameters and
\* allow_fallbacks
ProviderDicts ==
    {Merge(Merge(o, r), a) :
        o \in {EmptyDict, [order |-> "openai"]},
        r \in {EmptyDict, [require_parameters |-> TRUE], [require_parameters |-> FALSE]},
        a \in {EmptyDict, [allow_fallbacks |-> FALSE]}}
ProviderArgs == {None} \cup {Some(d) : d \in ProviderDicts}

\* the extra parameters a caller passes: keys that are not parameters of the
\* function
KwargsArgs ==
    {EmptyDict, [top_p |-> 1], [messages |-> "other"], [top_p |-> 1, messages |-> "other"]}

ResponseFormats == {None, Some("Text")}

PayloadInit ==
    /\ payload_args = [built |-> FALSE, response_format |-> None, provider |-> None,
                       kwargs |-> EmptyDict]
    /\ payload = EmptyDict

\* a_openrouter_chat_completion up to its call of a_openrouter_post
BuildPayload(response_format, provider, kwargs) ==
    /\ payload_args' = [built |-> TRUE, response_format |-> response_format,
                        provider |-> provider, kwargs |-> kwargs]
    /\ payload' = Payload(response_format, provider, kwargs)
    /\ UNCHANGED <<cost_call, notFn>>

PayloadNext ==
    \E response_format \in ResponseFormats, provider \in ProviderArgs, kwargs \in KwargsArgs :
        BuildPayload(response_format, provider, kwargs)

(***************************************************************************)
(* a_resize_image_below_5mb. An image is its size in pixels and what one   *)
(* pixel of it takes once encoded; the pixels of the model are coarse.     *)
(***************************************************************************)
\* PIL.Image.Image: size = (width, height); density stands for its content
Image(width, height, density) == [width |-> width, height |-> height, density |-> density]

Images == {Image(w, h, d) : w \in 1..MaxDim, h \in 1..MaxDim, d \in 1..MaxDensity}

\* get_image_size_mb: the length of the encoded image, in MB
get_image_size_mb(image) == image.width * image.height * image.density

\* int(x * 0.9) of a dimension
Shrunk(x) == (x * ShrinkNum) \div ShrinkDen

ResizeInit ==
    /\ im_pc = "idle"
    /\ img = Image(1, 1, 1)
    /\ current_img = Image(1, 1, 1)
    /\ resize_count = 0

\* a_resize_image_below_5mb(img) up to its while: the copy is measured and
\* returned as it is when it takes at most 5 MB
ResizeCall(image) ==
    /\ im_pc \in {"idle", "returned", "raised"}
    /\ img' = image
    /\ current_img' = image
    /\ resize_count' = 0
    /\ im_pc' = IF get_image_size_mb(image) <= LimitMb THEN "returned" ELSE "loop"
    /\ UNCHANGED notIm

\* one round of the while current_size_mb > 5: both dimensions are shrunk and
\* the image is resized, which PIL refuses with ValueError for a width or a
\* height of 0; then it is measured again
ResizeStep ==
    /\ im_pc = "loop"
    /\ LET new_width == Shrunk(current_img.width)
           new_height == Shrunk(current_img.height)
           resized == Image(new_width, new_height, current_img.density)
       IN  IF new_width < 1 \/ new_height < 1
           THEN /\ im_pc' = "raised"
                /\ UNCHANGED <<current_img, resize_count>>
           ELSE /\ current_img' = resized
                /\ resize_count' = resize_count + 1
                /\ im_pc' = IF get_image_size_mb(resized) <= LimitMb
                            THEN "returned" ELSE "loop"
    /\ UNCHANGED <<img, notIm>>

ResizeNext ==
    \/ \E image \in Images : ResizeCall(image)
    \/ ResizeStep

(***************************************************************************)
(* Concurrent OpenRouter completions. The coroutines of one event loop     *)
(* interleave at their awaits only: what a completion runs between two     *)
(* awaits is one step.                                                     *)
(***************************************************************************)
Completions == 1..NumCompletions

\* which executor serves the completion: a_openrouter_chat_completion with no
\* response_format, or a_llm__openrouter
CompletionKinds == {"chat", "llm"}

\* openrouter_state.get('cumulative_cost', 0), read by completion c in the
\* statement that stores the new total
ReadCumulative_beforeAwait(c) == inflight[c].at_call
ReadCumulative(c) == cumulative_cost

ConcurrentInit ==
    inflight = [c \in Completions |->
                    [pc |-> "idle", kind |-> "chat", model |-> "model-x", at_call |-> 0,
                     total_cost |-> 0, error |-> "none"]]

\* the executor is called and runs to the await of its request: a_openrouter_post
\* or a_openai_compatible_llm; at_call remembers the cumulative cost of that moment
CompletionCall(c, kind, model) ==
    /\ inflight[c].pc = "idle"
    /\ inflight' = [inflight EXCEPT ![c] = [@ EXCEPT !.pc = "awaiting", !.kind = kind,
                                                     !.model = model,
                                                     !.at_call = cumulative_cost]]
    /\ UNCHANGED <<cumulative_cost, notLl>>

\* the await raises: the error propagates and nothing is accounted
CompletionRaises(c) ==
    /\ inflight[c].pc = "awaiting"
    /\ inflight' = [inflight EXCEPT ![c] = [@ EXCEPT !.pc = "failed", !.error = "Exception"]]
    /\ UNCHANGED <<cumulative_cost, notLl>>

\* the await returns a completion: the pricing is looked up, the cost computed,
\* the cumulative cost read, added to and stored, and the content returned, with
\* no await in between
CompletionReturns(c) ==
    /\ inflight[c].pc = "awaiting"
    /\ LET found == Lookup(openrouter_model_table, inflight[c].model) IN
       IF ~found.found
       THEN /\ inflight' = [inflight EXCEPT ![c] = [@ EXCEPT !.pc = "failed",
                                                             !.error = "KeyError"]]
            /\ UNCHANGED cumulative_cost
       ELSE LET cost == IF inflight[c].kind = "chat"
                        THEN CalcCostDict(found.value, Usage)
                        ELSE CalcCost(found.value, Usage)
                total_cost == cost.completion + cost.prompt
            IN  /\ cumulative_cost' = ReadCumulative(c) + total_cost
                /\ inflight' = [inflight EXCEPT ![c] = [@ EXCEPT !.pc = "done",
                                                                 !.total_cost = total_cost]]
    /\ UNCHANGED notLl

ConcurrentNext ==
    \/ \E c \in Completions, kind \in CompletionKinds, model \in ModelIds :
            CompletionCall(c, kind, model)
    \/ \E c \in Completions : CompletionRaises(c)
    \/ \E c \in Completions : CompletionReturns(c)

(***************************************************************************)
(* Specifications: the rate limiter with its callers, and the executors.   *)
(***************************************************************************)
Init == RLInit /\ OAInit /\ ORInit /\ CostInit /\ PayloadInit /\ ResizeInit /\ ConcurrentInit
            /\ DiagnosticInit

Next == RLNext

Spec == Init /\ [][Next]_vars

NextOpenAI == OANext

SpecOpenAI == Init /\ [][NextOpenAI]_vars

NextOpenRouter == ORNext

SpecOpenRouter == Init /\ [][NextOpenRouter]_vars

NextCost == CostNext

SpecCost == Init /\ [][NextCost]_vars

NextPayload == PayloadNext

SpecPayload == Init /\ [][NextPayload]_vars

NextResize == ResizeNext

SpecResize == Init /\ [][NextResize]_vars

NextLive == LiveNext

SpecLive == Init /\ [][NextLive]_vars /\ LiveFairness

NextDiagnostic == DiagnosticNext

SpecDiagnostic == Init /\ [][NextDiagnostic]_vars

NextConcurrent == ConcurrentNext

\* the event loop resumes every coroutine that can run, and an awaited request
\* returns or raises
SpecConcurrent == Init /\ [][NextConcurrent]_vars /\ WF_vars(NextConcurrent)

(***************************************************************************)
(* Properties of the RateLimitManager, checked under Spec.                 *)
(***************************************************************************)
\* the entries of h that are younger than the window at the given time
Younger(h, time) == SelectSeq(h, LAMBDA e: e.timestamp + duration > time)

\* C1: ready(tokens) first prunes every entry older than the window, then admits
\* iff max_tokens minus the tokens of the remaining entries is >= tokens and the
\* number of remaining entries is < max_calls; on admission it appends exactly one
\* UsageEntry (current time, tokens) and returns true, on rejection it returns
\* false and appends nothing.
C1_ReadyAdmission ==
    [][\A p \in Callers :
        /\ (pc[p] = "ready" /\ pc'[p] = "decide") =>
                call_history' = Younger(call_history, now)
        /\ (pc[p] = "decide" /\ pc'[p] # "decide") =>
            LET kept == Younger(call_history, t[p])
                admit == /\ max_tokens - SumTokens(kept) >= approx_tokens[p]
                         /\ Len(kept) < max_calls
            IN  /\ (pc'[p] = "returned") <=> admit
                /\ admit => call_history' = Append(kept, UsageEntry(now, approx_tokens[p]))
                /\ ~admit => call_history' = kept /\ pc'[p] \in {"ready", "sleep"}
      ]_vars

\* C1 witness: a request was admitted as the second entry of the window while
\* another caller was rejected and sleeps
C1_Witness ==
    \E p, q \in Callers :
        /\ pc[p] = "returned" /\ pc[q] = "sleep"
        /\ Len(call_history) = max_calls
        /\ call_history[Len(call_history)] = UsageEntry(now, approx_tokens[p])

\* C2: in every reachable state the tokens of the entries inside the trailing
\* window sum to at most max_tokens and their number is at most max_calls,
\* whatever the interleaving of the concurrent callers.
C2_WindowWithinLimits ==
    /\ SumTokens(Younger(call_history, now)) <= max_tokens
    /\ Len(Younger(call_history, now)) <= max_calls

\* C2 witness: the window is full of tokens, one caller was admitted and a
\* concurrent one is waiting
C2_Witness ==
    \E p, q \in Callers :
        /\ p # q /\ pc[p] = "returned" /\ pc[q] \in {"ready", "sleep"} /\ check[q] = "loop"
        /\ approx_tokens[p] > 0 /\ approx_tokens[q] > 0 /\ approx_tokens[q] <= max_tokens
        /\ SumTokens(Younger(call_history, now)) = max_tokens

\* C4: acquire(approx_tokens) with approx_tokens > max_tokens never returns and
\* never records a UsageEntry, whatever the window holds and whatever the time.
C4_OversizeNeverAdmitted ==
    /\ \A p \in Callers : approx_tokens[p] > max_tokens => pc[p] # "returned"
    /\ \A i \in DOMAIN call_history : call_history[i].tokens <= max_tokens

\* C4 witness: an oversize request sleeps again, with an empty window, after
\* time has passed
C4_Witness ==
    \E p \in Callers :
        /\ approx_tokens[p] > max_tokens /\ pc[p] = "sleep"
        /\ now > 0 /\ wake_at[p] > now /\ call_history = <<>>

\* C5 as stated: acquire(t) with t <= max_tokens, checked while fewer than
\* max_calls calls are recorded in the window, returns at its first admission
\* check.
C5_AsStated ==
    [][\A p \in Callers :
        (/\ pc[p] = "decide" /\ check[p] = "first"
         /\ approx_tokens[p] <= max_tokens
         /\ Len(Younger(call_history, t[p])) < max_calls)
        => pc'[p] \in {"decide", "returned"}
      ]_vars

\* C5 amended: acquire(t) returns at its first admission check, without the
\* polling sleep, whenever at that check t <= max_tokens minus the tokens of the
\* entries recorded in the window and fewer than max_calls calls are recorded in
\* the window.
C5_FirstCheckAdmits ==
    [][\A p \in Callers :
        (/\ pc[p] = "decide" /\ check[p] = "first"
         /\ approx_tokens[p] <= max_tokens - SumTokens(Younger(call_history, t[p]))
         /\ Len(Younger(call_history, t[p])) < max_calls)
        => pc'[p] \in {"decide", "returned"}
      ]_vars

\* C5 witness: a request returned at its first check although the window
\* already held tokens
C5_Witness ==
    \E p \in Callers :
        /\ pc[p] = "returned" /\ check[p] = "first" /\ approx_tokens[p] > 0
        /\ Len(call_history) = 2 /\ call_history[1].tokens > 0
        /\ call_history[2].tokens = approx_tokens[p]

\* C6: at an admission check made at time t, no entry recorded at a time T with
\* T + duration <= t is counted, neither in the token usage nor in the call
\* count: the check has pruned it.
C6_SlidingWindow ==
    \A p \in Callers :
        pc[p] = "decide" =>
            /\ \A i \in DOMAIN call_history : call_history[i].timestamp > t[p] - duration
            /\ max_tokens - remaining[p] = SumTokens(Younger(call_history, t[p]))

\* C6 witness: a check sees an empty window and the whole capacity although
\* another caller's request was recorded earlier
C6_Witness ==
    \E p, q \in Callers :
        /\ p # q /\ pc[p] = "decide" /\ pc[q] = "returned" /\ approx_tokens[q] > 0
        /\ call_history = <<>> /\ remaining[p] = max_tokens

(***************************************************************************)
(* Properties of the OpenAI executors, checked under SpecOpenAI.           *)
(***************************************************************************)
RECURSIVE SumRuns(_)
SumRuns(n) == IF n = 0 THEN 0 ELSE ex_runs[n] + SumRuns(n - 1)

\* C3: every request an executor sends is preceded by a successful acquire on
\* its bucket's RateLimitManager: at any time at least as many UsageEntry have
\* been recorded as requests have been sent.
C3_DispatchGated == SumRuns(NumExecutors) <= Len(call_history)

\* C11: in a_repeat_for_rate_limit a rate-limit, API-timeout or API-connection
\* error is never a terminal outcome: the wrapper sleeps and the only step it can
\* then take is to attempt the task again, its count of attempts notwithstanding;
\* it returns only when the task returned and raises only an error of another
\* kind.
C11_ClassifiedNeverTerminal ==
    /\ [](\A e \in Executors :
            /\ ex_pc[e] = "returned" => ex_last[e] = "completion"
            /\ ex_pc[e] = "raised" =>
                    ex_last[e] \notin {"none", "completion", "RateLimitError",
                                       "APITimeoutError", "APIConnectionError"}
            /\ ex_last[e] \in {"RateLimitError", "APITimeoutError", "APIConnectionError"} =>
                    ex_pc[e] = "sleep" /\ ENABLED SleepOver(e))
    /\ [][\A e \in Executors :
            (ex_pc[e] = "sleep" /\ ex_pc'[e] # "sleep") =>
                (ex_pc'[e] = "task" /\ ex_runs'[e] = ex_runs[e])]_vars

\* C11 witness: a call whose task failed with a classified error was attempted
\* again and returned
C11_Witness ==
    \E e \in Executors :
        ex_pc[e] = "returned" /\ ex_runs[e] = 2 /\ ex_waits[e] = 1 /\ ex_last[e] = "completion"

\* C12: the wait before the next attempt is exactly N after a rate-limit error
\* with the hint "Please retry after N seconds.", exactly 10 after a rate-limit
\* error without a hint and after an API-timeout or API-connection error, and
\* exactly one wait is made between two consecutive attempts.
C12_WaitBeforeNextAttempt ==
    \A e \in Executors :
        /\ ex_pc[e] = "sleep" =>
            /\ (ex_last[e] = "RateLimitError" /\ ex_hint[e] # NoHint) => ex_sleep[e] = ex_hint[e]
            /\ (ex_last[e] = "RateLimitError" /\ ex_hint[e] = NoHint) => ex_sleep[e] = 10
            /\ ex_last[e] \in {"APITimeoutError", "APIConnectionError"} => ex_sleep[e] = 10
        /\ ex_waits[e] = IF ex_pc[e] \in {"returned", "raised"} THEN ex_runs[e] - 1
                         ELSE ex_runs[e]

\* C12 witness: one call sleeps the N of its hint while another sleeps the
\* fallback after a timeout
C12_Witness ==
    \E e, o \in Executors :
        /\ ex_pc[e] = "sleep" /\ ex_last[e] = "RateLimitError"
        /\ ex_hint[e] = MaxHint /\ ex_sleep[e] = MaxHint
        /\ ex_pc[o] = "sleep" /\ ex_last[o] = "APITimeoutError" /\ ex_sleep[o] = 10

C18_OneCostRecordPerCompletion ==
    published = Cardinality({e \in Executors : ex_kind[e] = "vision" /\ ex_pc[e] = "returned"})

\* C18 witness: a call of a_vision_llm__openai returned after a retry, with one
\* CostRecord published
C18_Witness ==
    /\ published = 1
    /\ \E e \in Executors :
            ex_kind[e] = "vision" /\ ex_pc[e] = "returned" /\ ex_waits[e] >= 1

\* C19: after any number of a_enable_cost_logging invocations the subject has
\* exactly one running-total subscriber, and its total is the sum of the total
\* costs of the CostRecords published, each counted once.
C19_EnableIdempotent ==
    /\ subscribers = Len(totals)
    /\ IF enabled
       THEN /\ subscribers = 1
            /\ FracEq(totals[1],
                      Frac(published * (ModelPricing.input_cost * Usage.prompt_tokens
                                        + ModelPricing.output_cost * Usage.completion_tokens),
                           1000))
       ELSE subscribers = 0 /\ published = 0
    /\ \A e \in Executors :
            (ex_kind[e] # "json" /\ ex_pc[e] \notin {"idle", "enable"}) => enabled

\* C19 witness: two calls have each invoked a_enable_cost_logging and two
\* CostRecords were added to the one running total
C19_Witness ==
    /\ \A e \in Executors : ex_kind[e] = "vision" /\ ex_pc[e] = "returned"
    /\ subscribers = 1 /\ published = 2 /\ totals[1].num > 0

(***************************************************************************)
(* Properties of a_openrouter_chat_completion, checked under               *)
(* SpecOpenRouter.                                                         *)
(***************************************************************************)
\* C7: with a schema the content is resolved by an ordered ladder that stops at
\* the first success: strict validation of the fence-stripped text; only if it
\* fails, repair followed by validation; only if that fails, the corrective
\* call. A text with a trailing comma or single quotes is returned by the repair
\* stage, and a text that validates strictly runs neither repair nor the
\* corrective call.
C7_OrderedLadder ==
    \A i \in DOMAIN stack :
        LET f == stack[i]
            strict == ValidateJson(f.data)
            repaired == ModelValidate(Repair(f.data))
        IN  (f.fix /\ f.schema /\ f.stages # <<>>) =>
                /\ f.data = FenceStripped(f.content)
                /\ IF strict.ok
                   THEN f.stages = <<"validate">> /\ f.pc = "done" /\ f.result = strict.value
                   ELSE IF repaired.ok
                   THEN /\ f.stages = <<"validate", "repair">>
                        /\ f.pc = "done" /\ f.result = repaired.value
                   ELSE f.stages = <<"validate", "repair", "fix">>
                /\ f.data \in {TrailingComma, SingleQuotes} =>
                        f.stages = <<"validate", "repair">> /\ f.result = <<"a">>

\* C7 witness: a fenced text with a trailing comma was returned by the repair
\* stage, no corrective call made
C7_Witness ==
    \E i \in DOMAIN stack :
        /\ stack[i].schema /\ stack[i].pc = "done" /\ stack[i].fixes = 0
        /\ stack[i].content = <<Fence>> \o TrailingComma \o <<Fence>>
        /\ stack[i].stages = <<"validate", "repair">> /\ stack[i].result = <<"a">>

\* C8: one call of a_openrouter_chat_completion invokes the corrective
\* collaborator at most once, and the chain of corrective calls is bounded to one
\* retry: a corrective call never makes a corrective call of its own, also when
\* the collaborator is the executor itself.
C8_OneCorrectiveCall ==
    /\ \A i \in DOMAIN stack : stack[i].fixes <= 1
    /\ Len(stack) <= 2

\* C9: for every well-formed JSON text s that matches the schema, the call that
\* receives s, or s wrapped in code fences with any text around them, returns
\* the value of s.
C9_FenceTransparent ==
    \A i \in DOMAIN stack : \A v \in Values :
        (/\ stack[i].schema /\ stack[i].pc = "done"
         /\ stack[i].content \in {Dump(v)} \cup Fenced(Dump(v)))
        => stack[i].result = v

NonDecreasing(w) == \A i \in 1..(Len(w) - 1) : w[i] <= w[i + 1]

\* C10: the operation is attempted at most 5 times and only a read timeout
\* triggers a new attempt; after k <= 4 timeouts k backoff waits were made, their
\* delays non-decreasing and at most 10, and a success is returned as it is;
\* after the 5th timeout no attempt is made and the call fails.
C10_TransientPolicy ==
    \A i \in DOMAIN stack :
        LET f == stack[i] IN
        /\ f.attempt \in 1..5 /\ f.timeouts \in 0..5
        /\ Len(f.waits) = f.attempt - 1
        /\ f.pc # "failed" => f.timeouts = f.attempt - 1
        /\ f.pc = "failed" => f.timeouts \in {f.attempt - 1, f.attempt}
        /\ f.timeouts = 5 => f.pc = "failed"
        /\ NonDecreasing(f.waits)
        /\ \A j \in DOMAIN f.waits : f.waits[j] <= 10
        /\ (f.pc = "done" /\ ~f.schema) => f.result = f.content

\* C10 witness: a call timed out 4 times, waited 4 times and then returned the
\* text of the response
C10_Witness ==
    \E i \in DOMAIN stack :
        /\ stack[i].pc = "done" /\ ~stack[i].schema
        /\ stack[i].timeouts = 4 /\ Len(stack[i].waits) = 4
        /\ stack[i].content # <<>> /\ stack[i].result = stack[i].content

\* C14: a response that holds an error object fails the call at once with
\* RuntimeError: the request is not sent again, no cost is computed, the
\* cumulative cost is left as it was and no resolver stage runs, in
\* a_openrouter_chat_completion and in a_openrouter_chat_completion__without_fix.
C14_ErrorObjectTerminal ==
    /\ [][PostErrorObject =>
            /\ cumulative_cost' = cumulative_cost
            /\ Len(stack') = Len(stack)
            /\ \A i \in 1..(Len(stack) - 1) : stack'[i] = stack[i]
            /\ stack'[Len(stack)].pc = "failed" /\ stack'[Len(stack)].error = "RuntimeError"
            /\ stack'[Len(stack)].attempt = Top.attempt /\ stack'[Len(stack)].waits = Top.waits
            /\ stack'[Len(stack)].stages = <<>> /\ stack'[Len(stack)].fixes = Top.fixes]_vars
    /\ [][\A i \in DOMAIN stack :
            (stack[i].pc = "failed" /\ i \in DOMAIN stack') => stack'[i] = stack[i]]_vars
    /\ [](\A i \in DOMAIN stack : stack[i].pc = "failed" => i = Len(stack))

\* C14 witness: after a read timeout and a retry, the second response held an
\* error object and the call failed with nothing added to the cumulative cost
C14_Witness ==
    /\ cumulative_cost = 0
    /\ \E i \in DOMAIN stack :
            /\ stack[i].pc = "failed" /\ stack[i].error = "RuntimeError"
            /\ stack[i].attempt = 2 /\ stack[i].stages = <<>>

C17_CumulativeCost ==
    /\ [][IF /\ stack # <<>> /\ Top.model = "model-x"
             /\ \E content \in Contents : PostCompletion(content)
          THEN /\ cumulative_cost' = cumulative_cost
                        + Usage.prompt_tokens * Pricing.prompt
                        + Usage.completion_tokens * Pricing.completion
               /\ cumulative_cost' = cumulative_cost + 12
               /\ ~Top.schema => (stack'[Len(stack)].pc = "done"
                                  /\ stack'[Len(stack)].result = stack'[Len(stack)].content)
          ELSE cumulative_cost' = cumulative_cost]_vars
    /\ [](cumulative_cost >= 0)

\* C17 witness: the costs of two completions were accounted before the call
\* returned
C17_Witness ==
    /\ cumulative_cost = 24
    /\ stack # <<>> /\ stack[1].pc = "done" /\ stack[1].content # <<>>

(***************************************************************************)
(* Properties of the cost computations, checked under SpecCost.            *)
(***************************************************************************)
InputPrice(c) ==
    IF c.path = "a_chat_completion_to_cost" THEN c.pricing.input_cost ELSE c.pricing.prompt
OutputPrice(c) ==
    IF c.path = "a_chat_completion_to_cost" THEN c.pricing.output_cost ELSE c.pricing.completion

\* C16 as stated: in every code path the prompt cost is prompt_tokens times the
\* input price as looked up, the completion cost is completion_tokens times the
\* output price, and the total is their sum.
C16_AsStated ==
    cost_call.path # "none" =>
        /\ FracEq(cost_call.prompt, Frac(cost_call.usage.prompt_tokens * InputPrice(cost_call), 1))
        /\ FracEq(cost_call.completion,
                  Frac(cost_call.usage.completion_tokens * OutputPrice(cost_call), 1))
        /\ FracEq(cost_call.total,
                  Frac(cost_call.usage.prompt_tokens * InputPrice(cost_call)
                       + cost_call.usage.completion_tokens * OutputPrice(cost_call), 1))

\* C16: calc_cost and calc_cost_dict give prompt_tokens times the prompt price
\* and completion_tokens times the completion price, and their caller's total is
\* the sum of the two; a_chat_completion_to_cost gives prompt_tokens times the
\* input price divided by 1000 and completion_tokens times the output price
\* divided by 1000, and as total the sum of the two.
C16_LinearPerPath ==
    LET c == cost_call
        per == IF c.path = "a_chat_completion_to_cost" THEN 1000 ELSE 1
    IN  c.path # "none" =>
        /\ FracEq(c.prompt, Frac(c.usage.prompt_tokens * InputPrice(c), per))
        /\ FracEq(c.completion, Frac(c.usage.completion_tokens * OutputPrice(c), per))
        /\ FracEq(c.total, Frac(c.usage.prompt_tokens * InputPrice(c)
                                + c.usage.completion_tokens * OutputPrice(c), per))
        /\ FracEq(c.total, FracAdd(c.prompt, c.completion))

\* C16 witness: a_chat_completion_to_cost costed 3 prompt tokens at 5 and 2
\* completion tokens at 15 per 1000 tokens as 45 / 1000
C16_Witness ==
    /\ cost_call.path = "a_chat_completion_to_cost"
    /\ cost_call.usage = [prompt_tokens |-> 3, completion_tokens |-> 2]
    /\ cost_call.pricing = ModelPricing
    /\ cost_call.total = Frac(45, 1000)

(***************************************************************************)
(* Properties of the payload, checked under SpecPayload.                   *)
(***************************************************************************)
\* C20: whenever a response schema is given, for every provider argument and
\* every set of extra parameters, the payload dispatched has
\* provider.require_parameters true and a response_format of type json_schema,
\* strict, whose schema has additionalProperties false.
C20_StrictSchemaPayload ==
    (payload_args.built /\ payload_args.response_format # None) =>
        /\ "provider" \in DOMAIN payload
        /\ "require_parameters" \in DOMAIN payload["provider"]
        /\ payload["provider"]["require_parameters"] = TRUE
        /\ "response_format" \in DOMAIN payload
        /\ payload["response_format"].type = "json_schema"
        /\ payload["response_format"].json_schema.strict = TRUE
        /\ payload["response_format"].json_schema.schema.additionalProperties = FALSE

(***************************************************************************)
(* Properties of a_resize_image_below_5mb, checked under SpecResize.       *)
(***************************************************************************)
\* C21: a_resize_image_below_5mb terminates for every input image and returns an
\* image whose encoded size is at most 5 MB: an image already within 5 MB is
\* returned without any resize; otherwise each round replaces (width, height)
\* by (int(0.9 * width), int(0.9 * height)), both strictly smaller, and the loop
\* stops at the first round whose encoded size is within 5 MB.
C21_ResizeTerminatesBelowLimit ==
    /\ im_pc # "raised"
    /\ im_pc = "returned" => get_image_size_mb(current_img) <= LimitMb
    /\ (im_pc = "returned" /\ get_image_size_mb(img) <= LimitMb) =>
            (current_img = img /\ resize_count = 0)
    /\ im_pc = "loop" =>
            /\ get_image_size_mb(current_img) > LimitMb
            /\ Shrunk(current_img.width) < current_img.width
            /\ Shrunk(current_img.height) < current_img.height

(***************************************************************************)
(* Properties of the retry wrapper, checked under SpecOpenRouter.          *)
(***************************************************************************)
\* C22: the retry re-executes only the HTTP call: within one call of
\* a_openrouter_chat_completion, however many read timeouts are retried, the
\* schema-example fetch, the image normalization, the cost accounting and the
\* response resolution each run at most once, and the request is POSTed again
\* only after an attempt whose POST raised a read timeout.
C22_RetryOnlyThePost ==
    /\ [](\A i \in 1..Len(stack) :
            stack[i].fix =>
                /\ stack[i].fetched <= 1
                /\ stack[i].normalized <= 1
                /\ stack[i].costed <= 1
                /\ stack[i].resolved <= 1)
    /\ [][\A i \in 1..Len(stack) :
            (i <= Len(stack') /\ stack[i].fix /\ stack'[i].attempt > stack[i].attempt) =>
                stack[i].pc = "post"]_vars

(***************************************************************************)
(* Properties of concurrent completions, checked under SpecConcurrent.     *)
(***************************************************************************)
\* the costs of the completions that have been accounted
RECURSIVE SumAccounted(_)
SumAccounted(cs) ==
    IF cs = {} THEN 0
    ELSE LET c == CHOOSE x \in cs : TRUE
         IN  (IF inflight[c].pc = "done" THEN inflight[c].total_cost ELSE 0)
                + SumAccounted(cs \ {c})

\* an update of the cumulative cost is lost: two completions are accounted and
\* the cumulative cost is less than the sum of their costs
LostUpdate ==
    \E c1, c2 \in Completions :
        /\ c1 # c2
        /\ inflight[c1].pc = "done" /\ inflight[c2].pc = "done"
        /\ cumulative_cost < inflight[c1].total_cost + inflight[c2].total_cost

C24_LockOnlyInsideReady ==
    /\ [](\A p \in Callers :
            /\ (lock = p) <=> (pc[p] = "decide")
            /\ pc[p] = "sleep" => lock # p)
    /\ [](lock \in Callers \cup {NoCaller})
    /\ [][\A p \in Callers :
            /\ (lock = p /\ pc'[p] # pc[p]) => lock' = NoCaller
            /\ (lock = p /\ lock' # p) => lock' = NoCaller
            /\ (lock # p /\ lock' = p) => (lock = NoCaller /\ pc[p] = "ready")]_vars

\* a waiter sleeps between two polls while another caller holds the lock
C24_Witness ==
    \E p, q \in Callers :
        /\ p # q
        /\ pc[p] = "sleep" /\ check[p] = "loop"
        /\ lock = q /\ pc[q] = "decide"

(***************************************************************************)
(* The waits of the retry wrapper, checked under SpecOpenRouter.           *)
(***************************************************************************)
IsPrefix(s, w) == Len(s) <= Len(w) /\ \A i \in 1..Len(s) : s[i] = w[i]

\* C25 as stated: the backoff starts at 4 and doubles on each further retry,
\* capped at 10: the waits after the 1st, 2nd, 3rd and 4th failed attempt are
\* 4, 8, 10 and 10.
C25_AsStated ==
    \A i \in 1..Len(stack) : stack[i].fix => IsPrefix(stack[i].waits, <<4, 8, 10, 10>>)

\* C25: the wait after the n-th failed attempt is 2^(n-1) kept within [4, 10]:
\* the waits after the 1st, 2nd, 3rd and 4th failed attempt are 4, 4, 4 and 8.
C25_WaitsFlooredAtFour ==
    /\ \A i \in 1..Len(stack) : stack[i].fix => IsPrefix(stack[i].waits, <<4, 4, 4, 8>>)
    /\ \A i \in 1..Len(stack) : \A n \in 1..Len(stack[i].waits) :
            stack[i].waits[n] = Max(WaitMin, Min(Pow(ExpBase, n - 1), WaitMax))

\* a call whose first four attempts timed out has waited four times
C25_Witness ==
    \E i \in 1..Len(stack) :
        /\ stack[i].fix
        /\ stack[i].timeouts = 4
        /\ stack[i].waits = <<4, 4, 4, 8>>

(***************************************************************************)
(* Cost accounting against resolution, checked under SpecOpenRouter.       *)
(***************************************************************************)
\* the call failed in its resolver: after the corrective call in
\* a_openrouter_chat_completion, after the repair in
\* a_openrouter_chat_completion__without_fix
FailedInResolver(f) ==
    /\ f.pc = "failed"
    /\ f.stages = IF f.fix THEN <<"validate", "repair", "fix">> ELSE <<"validate", "repair">>

\* C28: cost accounting precedes response resolution and is never rolled back:
\* while the corrective call of a completion is awaited, and once the call has
\* failed terminally in the resolver, the cumulative cost holds the cost of
\* every completion the call received, and no step decreases it.
C28_CostBeforeResolution ==
    /\ [](\A i \in 1..Len(stack) :
            LET cost == CalcCostDict(Pricing, Usage) IN
            (stack[i].pc \in {"fix", "awaiting"} \/ FailedInResolver(stack[i])) =>
                /\ stack[i].costed >= 1
                /\ stack[i].costed = stack[i].resolved
                /\ cumulative_cost >= stack[i].costed * (cost.prompt + cost.completion))
    /\ [][cumulative_cost' >= cumulative_cost]_vars

\* a call whose response was received and accounted has failed in validation,
\* repair and the corrective call
C28_Witness ==
    /\ Len(stack) = 1
    /\ FailedInResolver(stack[1])
    /\ stack[1].fix /\ stack[1].fixes = 1 /\ stack[1].error = "Exception"
    /\ stack[1].costed = 1
    /\ cumulative_cost = 12

(***************************************************************************)
(* Properties of the diagnostics, checked under SpecDiagnostic.            *)
(***************************************************************************)
\* C26: remaining_tokens and remaining_calls each re-prune the window on their
\* own: at any time remaining_calls returns max_calls minus the number of
\* entries younger than the window and remaining_tokens returns max_tokens minus
\* the sum of their tokens, whether or not another operation has pruned before;
\* neither adds an entry nor changes what a later ready would decide.
C26_DiagnosticsRePrune ==
    [][/\ RemainingCalls =>
            diagnostic'.value = max_calls - Len(Younger(call_history, now))
       /\ RemainingTokens =>
            diagnostic'.value = max_tokens - SumTokens(Younger(call_history, now))
       /\ (RemainingCalls \/ RemainingTokens) =>
            Younger(call_history', now) = Younger(call_history, now)]_vars

(***************************************************************************)
(* Liveness of admission, checked under SpecLive.                          *)
(***************************************************************************)
\* the acquire followed is pending at the end of the clock, and an entry of the
\* window would age out only after MaxTime
BeyondClock ==
    /\ now = MaxTime
    /\ pc[1] \in {"ready", "decide", "sleep"}
    /\ \E i \in 1..Len(call_history) : call_history[i].timestamp + duration > MaxTime

\* C27: if acquire(t) is pending with 0 <= t <= max_tokens and max_calls >= 1,
\* time keeps advancing, the poller is scheduled fairly and no other caller is
\* admitted, then acquire eventually returns, once enough entries have aged out,
\* and it has recorded exactly one UsageEntry for the request: the entry is
\* appended by the step that returns and by no other step of the acquire.
\* The clock of the model ends at MaxTime: an acquire that is pending then
\* while an entry would age out only after MaxTime is beyond what the model
\* follows.
C27_AdmissionLiveness ==
    /\ (pc[1] \in {"ready", "decide", "sleep"} /\ approx_tokens[1] <= max_tokens /\ max_calls >= 1)
            ~> (pc[1] = "returned" \/ BeyondClock)
    /\ [][IF pc[1] # "returned" /\ pc'[1] = "returned"
          THEN call_history' = Append(call_history, UsageEntry(now, approx_tokens[1]))
          ELSE Len(call_history') <= Len(call_history)]_vars

\* an acquire that found the window full has slept, and has returned after the
\* entries aged out, leaving its entry as the only one
C27_Witness ==
    /\ pc[1] = "returned" /\ check[1] = "loop"
    /\ now >= duration
    /\ approx_tokens[1] = max_tokens
    /\ call_history = <<UsageEntry(now, max_tokens)>>
    /\ \E p \in Callers : p # 1 /\ pc[p] # "idle"

====
